---- MODULE Spec2Model ----
(***************************************************************************)
(* A model of zodest's argv dispatcher (src/src/index.ts): the flag        *)
(* tokenizer, the global/command boundary splitter, alias resolution, the  *)
(* command resolver and the validation pipeline of processConfig.          *)
(*                                                                         *)
(* A JavaScript string is a sequence of one-character strings, so that     *)
(* slice, split, startsWith and join are computed as the code computes     *)
(* them.  A JavaScript Map or object is a sequence of entries in insertion *)
(* order.  An optional value is a sequence of length 0 or 1.               *)
(***************************************************************************)
EXTENDS Integers, Sequences, FiniteSets, TLC

VARIABLES
  pc,                 \* position of the call being modelled
  config,             \* processConfig: the DefineConfig argument
  argv,               \* processConfig: the argv argument
  globalOptionsEnd,   \* processConfig: const globalOptionsEnd
  globalOptionsPart,  \* processConfig: const globalOptionsPart
  commandParts,       \* processConfig: const commandParts
  commandOptionsPart, \* processConfig: const commandOptionsPart
  globalFlags,        \* processGlobalOptions: the Map globalFlags
  globalOptions,      \* processConfig: const globalOptions (typed)
  normalizedCommands, \* processConfig: const normalizedCommands
  factoryCalls,       \* the calls made to a commands factory, in order
  bestMatch,          \* processConfig: const bestMatch
  cmdArgs,            \* processConfig: const cmdArgs
  commandInputFlags,  \* processCommandOptions: the Map commandInputFlags
  validatedArgs,      \* processCommandOptions: const validatedArgs
  commandOptions,     \* processCommandOptions: const commandOptions
  res,                \* processConfig: the returned record (0 or 1 of them)
  error,              \* what the call threw, if it threw
  trail,              \* the validation steps run so far, in order
  arg,                \* parseArgIntoFlags: its argument
  parsed,             \* parseArgIntoFlags: its outcome
  definition,         \* defineOptions: its arguments
  defined             \* defineOptions: its outcome

vars == << pc, config, argv, globalOptionsEnd, globalOptionsPart, commandParts,
           commandOptionsPart, globalFlags, globalOptions, normalizedCommands,
           factoryCalls, bestMatch, cmdArgs, commandInputFlags, validatedArgs,
           commandOptions, res, error, trail, arg, parsed, definition, defined >>

----------------------------------------------------------------------------
(* Bounds of the model. *)

\* longest body (the text after the dashes) of a token given to the tokenizer
MaxBodyLen == 4
\* longest command path given to the resolver on its own
MaxPathLen == 3
\* largest command table given to the resolver on its own
MaxTableLen == 2
\* longest argv given to processConfig
MaxArgvLen == 4
\* largest schema given to defineOptions on its own
MaxShapeLen == 2
\* largest alias map given to defineOptions on its own
MaxAliasLen == 2
\* longest tuple args spec given to validateArgs on its own
MaxTupleLen == 2
\* longest list of positional tokens given to validateArgs on its own
MaxArgsLen == 3

----------------------------------------------------------------------------
(* JavaScript strings *)

RECURSIVE SeqsUpTo(_, _)
\* every sequence over S of length at most n
SeqsUpTo(S, n) ==
  IF n = 0 THEN { <<>> }
  ELSE LET shorter == SeqsUpTo(S, n - 1)
       IN  shorter \cup { Append(s, x) : s \in { t \in shorter : Len(t) = n - 1 }, x \in S }

\* String.prototype.startsWith
startsWith(str, prefix) ==
  /\ Len(str) >= Len(prefix)
  /\ SubSeq(str, 1, Len(prefix)) = prefix

\* String.prototype.slice(n) and Array.prototype.slice(n), n >= 0
slice(str, n) == SubSeq(str, n + 1, Len(str))

\* Array.prototype.slice(0, n), n >= 0
sliceTo(str, n) == SubSeq(str, 1, IF n < Len(str) THEN n ELSE Len(str))

RECURSIVE splitAll(_, _, _, _, _)
\* str.split(sep) for a one-character separator: every piece, in order
splitAll(str, sep, i, cur, acc) ==
  IF i > Len(str) THEN Append(acc, cur)
  ELSE IF str[i] = sep THEN splitAll(str, sep, i + 1, <<>>, Append(acc, cur))
  ELSE splitAll(str, sep, i + 1, Append(cur, str[i]), acc)

\* str.split(sep, limit): split at EVERY separator, then keep the first
\* `limit` pieces (the rest of the string is dropped, not kept in the last piece)
split(str, sep, limit) == sliceTo(splitAll(str, sep, 1, <<>>, <<>>), limit)

RECURSIVE join(_, _)
\* Array.prototype.join(sep)
join(parts, sep) ==
  IF Len(parts) = 0 THEN <<>>
  ELSE IF Len(parts) = 1 THEN parts[1]
  ELSE parts[1] \o sep \o join(Tail(parts), sep)

\* String.prototype.toUpperCase on one character
toUpperCase(c) ==
  CASE c = "a" -> "A" [] c = "b" -> "B" [] c = "c" -> "C" [] c = "d" -> "D"
    [] c = "e" -> "E" [] c = "f" -> "F" [] c = "g" -> "G" [] c = "h" -> "H"
    [] c = "i" -> "I" [] c = "j" -> "J" [] c = "k" -> "K" [] c = "l" -> "L"
    [] c = "m" -> "M" [] c = "n" -> "N" [] c = "o" -> "O" [] c = "p" -> "P"
    [] c = "q" -> "Q" [] c = "r" -> "R" [] c = "s" -> "S" [] c = "t" -> "T"
    [] c = "u" -> "U" [] c = "v" -> "V" [] c = "w" -> "W" [] c = "x" -> "X"
    [] c = "y" -> "Y" [] c = "z" -> "Z" [] OTHER -> c

\* the text a template literal prints for the value undefined
S_undefined == << "u", "n", "d", "e", "f", "i", "n", "e", "d" >>

RECURSIVE splitWords(_, _, _, _)
\* str.split(/[ -]+/): a run of spaces and hyphens is one separator
splitWords(str, i, cur, acc) ==
  IF i > Len(str) THEN Append(acc, cur)
  ELSE IF str[i] \in { " ", "-" }
       THEN IF i < Len(str) /\ str[i + 1] \in { " ", "-" }
            THEN splitWords(str, i + 1, cur, acc)
            ELSE splitWords(str, i + 1, <<>>, Append(acc, cur))
       ELSE splitWords(str, i + 1, Append(cur, str[i]), acc)

RECURSIVE camelReduce(_, _, _)
\* the reduce of camelCase over the pieces from index i on
camelReduce(pieces, i, acc) ==
  IF i > Len(pieces) THEN acc
  ELSE LET curr == pieces[i]
           head == IF Len(curr) = 0 THEN S_undefined ELSE << toUpperCase(curr[1]) >>
       IN  camelReduce(pieces, i + 1,
                       IF i = 1 THEN curr ELSE acc \o head \o slice(curr, 1))

\* camelCase(str)
camelCase(str) == camelReduce(splitWords(str, 1, <<>>, <<>>), 1, <<>>)

----------------------------------------------------------------------------
(* Values: boolean | string on the flag side, typed values after a schema *)

BoolV(b) == [ kind |-> "boolean", b |-> b, n |-> 0, s |-> <<>> ]
StrV(s)  == [ kind |-> "string", b |-> FALSE, n |-> 0, s |-> s ]
NumV(n)  == [ kind |-> "number", b |-> FALSE, n |-> n, s |-> <<>> ]

----------------------------------------------------------------------------
(* Tokenizer *)

\* the outcome of a call that may throw
Threw(what) == [ threw |-> TRUE, what |-> what, flags |-> <<>> ]
Returned(flags) == [ threw |-> FALSE, what |-> "", flags |-> flags ]

\* a mutant of flagValue: the text after `=` is not read
flagValueIgnored(pieces) == BoolV(TRUE)

\* value === undefined ? true : value, for the pieces of split('=', 2)
flagValue(pieces) == IF Len(pieces) < 2 THEN BoolV(TRUE) ELSE StrV(pieces[2])

\* parseArgIntoFlags(arg)
parseArgIntoFlags(a) ==
  IF startsWith(a, << "-", "-" >>)
  THEN LET flag == slice(a, 2)
       IN  IF startsWith(flag, << "n", "o", "-" >>)
           THEN Returned(<< [ key |-> slice(flag, 3), value |-> BoolV(FALSE) ] >>)
           ELSE LET pieces == split(flag, "=", 2)
                    key == pieces[1]
                IN  IF key = <<>>
                    THEN Threw("Error")
                    ELSE Returned(<< [ key |-> key, value |-> flagValue(pieces) ] >>)
  ELSE IF startsWith(a, << "-" >>)
  THEN LET flag == slice(a, 1)
           pieces == split(flag, "=", 2)
           chars == pieces[1]
       IN  Returned([ i \in 1..Len(chars) |->
                        [ key |-> << chars[i] >>, value |-> flagValue(pieces) ] ])
  ELSE Returned(<<>>)

----------------------------------------------------------------------------
(* JavaScript objects and Maps: entries << [key, value] >> in insertion order. *)
(* The keys of the model never name a member of Object.prototype, so that   *)
(* `key in obj` and obj[key] see the object's own entries only.             *)

\* key in obj, Map.prototype.has
Has(obj, key) == \E i \in 1..Len(obj) : obj[i].key = key

\* obj[key], Map.prototype.get, for a key the object has
Get(obj, key) == obj[CHOOSE i \in 1..Len(obj) : obj[i].key = key].value

\* Object.keys, Map.prototype.keys
Keys(obj) == [ i \in 1..Len(obj) |-> obj[i].key ]

\* a mutant of MapSet: the first value given for a key is kept
MapSetKeepFirst(map, key, value) ==
  IF Has(map, key) THEN map ELSE Append(map, [ key |-> key, value |-> value ])

\* Map.prototype.set: an existing key keeps its place and takes the new value
MapSet(map, key, value) ==
  IF Has(map, key)
  THEN [ i \in 1..Len(map) |->
           IF map[i].key = key THEN [ key |-> key, value |-> value ] ELSE map[i] ]
  ELSE Append(map, [ key |-> key, value |-> value ])

----------------------------------------------------------------------------
(* Alias resolver *)

\* options?.aliases of an optional OptionsDefinition ({} when absent)
aliasesOf(options) == IF Len(options) = 0 THEN <<>> ELSE options[1].aliases

\* options?.schema?.shape || {} of an optional OptionsDefinition
shapeOf(options) == IF Len(options) = 0 THEN <<>> ELSE options[1].schema

\* resolveAlias(key, aliases): aliases[key] || camelCase(key)
resolveAlias(key, aliases) ==
  IF Has(aliases, key) /\ Get(aliases, key) # <<>>
  THEN Get(aliases, key)
  ELSE camelCase(key)

\* isGlobalFlag(key, globalOptions)
isGlobalFlag(key, globalOpts) ==
  Has(shapeOf(globalOpts), key) \/ Has(aliasesOf(globalOpts), key)

----------------------------------------------------------------------------
(* Boundary splitter *)

\* the flags.every(...) of findGlobalOptionsEnd
allGlobal(flags, globalOpts) ==
  \A i \in 1..Len(flags) :
    isGlobalFlag(resolveAlias(flags[i].key, aliasesOf(globalOpts)), globalOpts)

RECURSIVE scanGlobalOptions(_, _, _)
\* the loop of findGlobalOptionsEnd from the (1-based) position i on; a
\* non-flag token returns its index, a flag token that is not all-global
\* breaks out of the loop, to the return after it
scanGlobalOptions(av, i, cfg) ==
  IF i > Len(av) THEN [ threw |-> FALSE, what |-> "", index |-> Len(av) ]
  ELSE IF startsWith(av[i], << "-" >>)
       THEN LET flags == parseArgIntoFlags(av[i])
            IN  IF flags.threw
                THEN [ threw |-> TRUE, what |-> flags.what, index |-> 0 ]
                ELSE IF ~allGlobal(flags.flags, cfg.globalOptions)
                     THEN [ threw |-> FALSE, what |-> "", index |-> Len(av) ]
                     ELSE scanGlobalOptions(av, i + 1, cfg)
       ELSE [ threw |-> FALSE, what |-> "", index |-> i - 1 ]

\* findGlobalOptionsEnd(argv, config)
findGlobalOptionsEnd(av, cfg) == scanGlobalOptions(av, 1, cfg)

\* remaining.findIndex((arg) => arg.startsWith('-')), 0-based, -1 when none
findFirstFlag(remaining) ==
  IF \E i \in 1..Len(remaining) : startsWith(remaining[i], << "-" >>)
  THEN (CHOOSE i \in 1..Len(remaining) :
          /\ startsWith(remaining[i], << "-" >>)
          /\ \A j \in 1..(i - 1) : ~startsWith(remaining[j], << "-" >>)) - 1
  ELSE -1

----------------------------------------------------------------------------
(* Field schemas: the part of zod the configurations of this model use.    *)
(* A field is z.boolean(), z.string().min(m), z.enum(values),              *)
(* z.number().min(m).max(M) or z.coerce.number().min(m), each with or      *)
(* without .default(d); an object schema is a shape, parsed field by       *)
(* field, unknown keys of the input stripped.  Numbers are naturals.       *)

Field(type, coerce, min, max, values, dflt) ==
  [ type |-> type, coerce |-> coerce, min |-> min, max |-> max,
    values |-> values, dflt |-> dflt ]

\* the outcome of schema.parse: a typed value, or the issues of the ZodError
ParseOk(v)   == [ ok |-> TRUE, value |-> v, issues |-> <<>> ]
ParseFail(i) == [ ok |-> FALSE, value |-> [ kind |-> "boolean", b |-> FALSE, n |-> 0, s |-> <<>> ], issues |-> i ]

\* a z.ZodIssue; the message is its fixed text and what is interpolated in it
Issue(code, message, keys, path) ==
  [ code |-> code, message |-> message, keys |-> keys, path |-> path ]

Msg(text) == [ text |-> text, args |-> <<>> ]

IsDigit(c) == c \in { "0", "1", "2", "3", "4", "5", "6", "7", "8", "9" }

DigitValue(c) ==
  CASE c = "0" -> 0 [] c = "1" -> 1 [] c = "2" -> 2 [] c = "3" -> 3 [] c = "4" -> 4
    [] c = "5" -> 5 [] c = "6" -> 6 [] c = "7" -> 7 [] c = "8" -> 8 [] c = "9" -> 9

RECURSIVE DecimalValue(_, _)
DecimalValue(s, acc) ==
  IF Len(s) = 0 THEN acc ELSE DecimalValue(Tail(s), 10 * acc + DigitValue(s[1]))

\* Number(v) of z.coerce.number(), for the values the model's tokens carry:
\* a string of digits is its decimal value, the empty string is 0, true is 1,
\* false is 0 and every other string of the model's alphabet is NaN
ToNumber(v) ==
  IF v.kind = "boolean" THEN [ nan |-> FALSE, n |-> IF v.b THEN 1 ELSE 0 ]
  ELSE IF v.kind = "number" THEN [ nan |-> FALSE, n |-> v.n ]
  ELSE IF \A i \in 1..Len(v.s) : IsDigit(v.s[i])
       THEN [ nan |-> FALSE, n |-> DecimalValue(v.s, 0) ]
       ELSE [ nan |-> TRUE, n |-> 0 ]

\* field.parse(input) for an optional input (absent: undefined)
parseField(field, input, path) ==
  IF Len(input) = 0 /\ Len(field.dflt) = 1 THEN ParseOk(field.dflt[1])
  ELSE IF Len(input) = 0
  THEN ParseFail(<< Issue("invalid_type", Msg("Required"), <<>>, path) >>)
  ELSE LET v == input[1]
       IN  CASE field.type = "boolean" ->
                  IF v.kind = "boolean" THEN ParseOk(v)
                  ELSE ParseFail(<< Issue("invalid_type", Msg("Expected boolean"), <<>>, path) >>)
             [] field.type = "string" ->
                  IF v.kind # "string"
                  THEN ParseFail(<< Issue("invalid_type", Msg("Expected string"), <<>>, path) >>)
                  ELSE IF Len(v.s) < field.min
                  THEN ParseFail(<< Issue("too_small", Msg("String too short"), <<>>, path) >>)
                  ELSE ParseOk(v)
             [] field.type = "enum" ->
                  IF v.kind = "string" /\ v.s \in field.values THEN ParseOk(v)
                  ELSE ParseFail(<< Issue("invalid_enum_value", Msg("Invalid enum value"), <<>>, path) >>)
             [] field.type = "number" ->
                  LET n == IF field.coerce THEN ToNumber(v)
                           ELSE [ nan |-> v.kind # "number", n |-> v.n ]
                  IN  IF n.nan
                      THEN ParseFail(<< Issue("invalid_type", Msg("Expected number"), <<>>, path) >>)
                      ELSE IF n.n < field.min
                      THEN ParseFail(<< Issue("too_small", Msg("Number too small"), <<>>, path) >>)
                      ELSE IF Len(field.max) = 1 /\ n.n > field.max[1]
                      THEN ParseFail(<< Issue("too_big", Msg("Number too big"), <<>>, path) >>)
                      ELSE ParseOk(NumV(n.n))

RECURSIVE parseShape(_, _, _, _, _)
\* schema.parse(Object.fromEntries(flags)) over the fields from i on: every
\* field is parsed, the issues of all failing fields are collected
parseShape(shape, flags, i, values, issues) ==
  IF i > Len(shape)
  THEN IF Len(issues) = 0
       THEN [ ok |-> TRUE, value |-> values, issues |-> <<>> ]
       ELSE [ ok |-> FALSE, value |-> <<>>, issues |-> issues ]
  ELSE LET key == shape[i].key
           input == IF Has(flags, key) THEN << Get(flags, key) >> ELSE <<>>
           r == parseField(shape[i].value, input, << key >>)
       IN  IF r.ok
           THEN parseShape(shape, flags, i + 1,
                           Append(values, [ key |-> key, value |-> r.value ]), issues)
           ELSE parseShape(shape, flags, i + 1, values, issues \o r.issues)

\* schema.parse of an object schema
parseObject(shape, flags) == parseShape(shape, flags, 1, <<>>, <<>>)

----------------------------------------------------------------------------
(* Validator *)

S_global == << "g", "l", "o", "b", "a", "l" >>
S_command == << "c", "o", "m", "m", "a", "n", "d" >>

RECURSIVE unknownFlagsOf(_, _)
\* Array.from(flags.keys()).filter(key => !(key in schema) && !(camelCase(key) in schema))
unknownFlagsOf(keys, schema) ==
  IF Len(keys) = 0 THEN <<>>
  ELSE IF ~Has(schema, keys[1]) /\ ~Has(schema, camelCase(keys[1]))
       THEN << keys[1] >> \o unknownFlagsOf(Tail(keys), schema)
       ELSE unknownFlagsOf(Tail(keys), schema)

\* a mutant of validateFlags: only the first unknown key is reported
validateFlagsFirstOnly(flags, schema, context, allowUnknownFlags) ==
  IF allowUnknownFlags THEN <<>>
  ELSE LET unknownFlags == unknownFlagsOf(Keys(flags), schema)
       IN  IF Len(unknownFlags) > 0
           THEN << Issue("unrecognized_keys", Msg("Unknown flags"),
                         << unknownFlags[1] >>, << context >>) >>
           ELSE <<>>

\* validateFlags(flags, schema, context, allowUnknownFlags)
validateFlags(flags, schema, context, allowUnknownFlags) ==
  IF allowUnknownFlags THEN <<>>
  ELSE LET unknownFlags == unknownFlagsOf(Keys(flags), schema)
       IN  IF Len(unknownFlags) > 0
           THEN << Issue("unrecognized_keys", Msg("Unknown flags"), unknownFlags, << context >>) >>
           ELSE <<>>

\* cmdArgs[idx] for a 0-based idx: undefined past the end
argAt(args, idx) == IF idx + 1 <= Len(args) THEN << StrV(args[idx + 1]) >> ELSE <<>>

RECURSIVE mapParse(_, _, _, _)
\* items.map((x, idx) => x.parse(inputs[idx])) from position i on: the first
\* failing parse throws, the later ones are not run
mapParse(items, inputs, i, values) ==
  IF i > Len(items) THEN [ ok |-> TRUE, value |-> values, issues |-> <<>> ]
  ELSE LET r == parseField(items[i], inputs[i], <<>>)
       IN  IF r.ok THEN mapParse(items, inputs, i + 1, Append(values, r.value))
           ELSE [ ok |-> FALSE, value |-> <<>>, issues |-> r.issues ]

\* a mutant of validateArgs: a tuple's schemas are applied to the tokens
\* given only, a position with no token is skipped
validateArgsGivenOnly(schemaArgs, args) ==
  CASE schemaArgs.variant = "array" ->
         mapParse([ i \in 1..Len(args) |-> schemaArgs.items[1] ],
                  [ i \in 1..Len(args) |-> << StrV(args[i]) >> ], 1, <<>>)
    [] schemaArgs.variant \in { "tuple", "plainArray" } ->
         LET n == IF Len(args) < Len(schemaArgs.items) THEN Len(args)
                  ELSE Len(schemaArgs.items)
         IN  mapParse(SubSeq(schemaArgs.items, 1, n),
                      [ i \in 1..n |-> << StrV(args[i]) >> ], 1, <<>>)
    [] schemaArgs.variant = "single" ->
         mapParse(schemaArgs.items, << argAt(args, 0) >>, 1, <<>>)
    [] schemaArgs.variant = "none" ->
         [ ok |-> TRUE, value |-> <<>>, issues |-> <<>> ]

\* validateArgs(schemaArgs, cmdArgs)
validateArgs(schemaArgs, args) ==
  CASE schemaArgs.variant = "array" ->
         mapParse([ i \in 1..Len(args) |-> schemaArgs.items[1] ],
                  [ i \in 1..Len(args) |-> << StrV(args[i]) >> ], 1, <<>>)
    [] schemaArgs.variant \in { "tuple", "plainArray" } ->
         mapParse(schemaArgs.items,
                  [ i \in 1..Len(schemaArgs.items) |-> argAt(args, i - 1) ], 1, <<>>)
    [] schemaArgs.variant = "single" ->
         mapParse(schemaArgs.items, << argAt(args, 0) >>, 1, <<>>)
    [] schemaArgs.variant = "none" ->
         [ ok |-> TRUE, value |-> <<>>, issues |-> <<>> ]

----------------------------------------------------------------------------
(* Command resolver *)

\* cmd.name || name
nameOr(cmd, key) ==
  IF Len(cmd.name) = 1 /\ cmd.name[1] # <<>> THEN cmd.name[1] ELSE key

\* Object.fromEntries(Object.entries(commands).map(
\*   ([name, cmd]) => [name, { ...cmd, name: cmd.name || name }]))
normalizeCommands(commands) ==
  [ i \in 1..Len(commands) |->
      [ key |-> commands[i].key,
        value |-> [ commands[i].value EXCEPT !.name = << nameOr(commands[i].value, commands[i].key) >> ] ] ]

\* cmdPath.split(' ').length
wordCount(cmdPath) == Len(splitAll(cmdPath, " ", 1, <<>>, <<>>))

\* the test of the inner loop: does cmd answer to cmdPath
matches(cmd, cmdPath) ==
  \/ (Len(cmd.name) = 1 /\ cmdPath = cmd.name[1])
  \/ (Len(cmd.name) = 1 /\ camelCase(cmdPath) = cmd.name[1])
  \/ \E i \in 1..Len(cmd.aliases) : cmd.aliases[i] = cmdPath

NotFound == [ found |-> FALSE, command |-> <<>>, pathLength |-> 0 ]

\* a mutant of firstMatch: the last declared command that matches is taken
lastMatch(commands, cmdPath) ==
  IF \E i \in 1..Len(commands) : matches(commands[i].value, cmdPath)
  THEN LET i == CHOOSE i \in 1..Len(commands) :
                  /\ matches(commands[i].value, cmdPath)
                  /\ \A j \in (i + 1)..Len(commands) : ~matches(commands[j].value, cmdPath)
       IN  [ found |-> TRUE, command |-> << commands[i].value >>,
             pathLength |-> wordCount(cmdPath) ]
  ELSE NotFound

\* the inner loop of findBestMatchingCommand: the first entry, in the order
\* of Object.entries, that matches cmdPath
firstMatch(commands, cmdPath) ==
  IF \E i \in 1..Len(commands) : matches(commands[i].value, cmdPath)
  THEN LET i == CHOOSE i \in 1..Len(commands) :
                  /\ matches(commands[i].value, cmdPath)
                  /\ \A j \in 1..(i - 1) : ~matches(commands[j].value, cmdPath)
       IN  [ found |-> TRUE, command |-> << commands[i].value >>,
             pathLength |-> wordCount(cmdPath) ]
  ELSE NotFound

RECURSIVE shortestFirst(_, _, _)
\* a mutant of progressiveMatch: the shortest prefix is tried first
shortestFirst(commands, parts, n) ==
  IF n > Len(parts) THEN NotFound
  ELSE LET m == firstMatch(commands, join(sliceTo(parts, n), << " " >>))
       IN  IF m.found THEN m ELSE shortestFirst(commands, parts, n + 1)

\* a mutant of progressiveMatch, started at the one-token prefix
progressiveMatchShortest(commands, remainingParts) ==
  IF Len(remainingParts) = 0 THEN NotFound
  ELSE shortestFirst(commands, remainingParts, 1)

RECURSIVE progressiveMatch(_, _)
\* the while loop of findBestMatchingCommand: the whole path, then the path
\* without its last token, and so on
progressiveMatch(commands, remainingParts) ==
  IF Len(remainingParts) = 0 THEN NotFound
  ELSE LET m == firstMatch(commands, join(remainingParts, << " " >>))
       IN  IF m.found THEN m
           ELSE progressiveMatch(commands, sliceTo(remainingParts, Len(remainingParts) - 1))

\* a mutant of findBestMatchingCommand: with no match the first declared
\* command is taken, whether or not a default command is configured
findBestMatchingCommandFirstDeclared(parts, commands, defaultCommand) ==
  LET m == IF Len(commands) > 0 THEN progressiveMatch(commands, parts) ELSE NotFound
  IN  IF ~m.found /\ Len(commands) > 0
      THEN [ found |-> TRUE, command |-> << commands[1].value >>, pathLength |-> 0 ]
      ELSE m

\* findBestMatchingCommand(commandParts, commands, defaultCommand)
findBestMatchingCommand(parts, commands, defaultCommand) ==
  LET m == IF Len(commands) > 0 THEN progressiveMatch(commands, parts) ELSE NotFound
  IN  IF ~m.found /\ Len(defaultCommand) = 1 /\ defaultCommand[1] # <<>>
      THEN [ found |-> TRUE,
             command |-> IF Has(commands, defaultCommand[1])
                         THEN << Get(commands, defaultCommand[1]) >> ELSE <<>>,
             pathLength |-> 0 ]
      ELSE m

----------------------------------------------------------------------------
(* The words of the configurations and the tokens given on the command line *)

S_verbose == << "v", "e", "r", "b", "o", "s", "e" >>
S_serve == << "s", "e", "r", "v", "e" >>
S_port == << "p", "o", "r", "t" >>
S_src == << "s", "r", "c" >>
S_nope == << "n", "o", "p", "e" >>
S_foo == << "f", "o", "o" >>
S_bar == << "b", "a", "r" >>
S_42 == << "4", "2" >>
S_help == << "h", "e", "l", "p" >>
S_debug == << "d", "e", "b", "u", "g" >>
S_version == << "v", "e", "r", "s", "i", "o", "n" >>
S_role == << "r", "o", "l", "e" >>
S_age == << "a", "g", "e" >>
S_active == << "a", "c", "t", "i", "v", "e" >>
S_createdAt == << "c", "r", "e", "a", "t", "e", "d", "A", "t" >>
S_userAdd == << "u", "s", "e", "r", "A", "d", "d" >>
S_user_remove == << "u", "s", "e", "r", " ", "r", "e", "m", "o", "v", "e" >>
S_force == << "f", "o", "r", "c", "e" >>
S_serveme == << "s", "e", "r", "v", "e", "m", "e" >>
S_dev == << "d", "e", "v" >>
S_foobar == << "f", "o", "o", "b", "a", "r" >>
S_build == << "b", "u", "i", "l", "d" >>
S_buid == << "b", "u", "i", "d" >>
S_bild == << "b", "i", "l", "d" >>
S_buidl == << "b", "u", "i", "d", "l" >>
S_watch == << "w", "a", "t", "c", "h" >>
S_minify == << "m", "i", "n", "i", "f", "y" >>
S_tupled == << "t", "u", "p", "l", "e", "d" >>
S_quxie == << "q", "u", "x", "i", "e" >>
S_user == << "u", "s", "e", "r" >>
S_add == << "a", "d", "d" >>
S_bob == << "b", "o", "b" >>
S_admin == << "a", "d", "m", "i", "n" >>
S_john == << "j", "o", "h", "n" >>

T_verbose == << "-", "-", "v", "e", "r", "b", "o", "s", "e" >>
T_port8080 == << "-", "-", "p", "o", "r", "t", "=", "8", "0", "8", "0" >>
T_port3000 == << "-", "-", "p", "o", "r", "t", "=", "3", "0", "0", "0" >>
T_port4000 == << "-", "-", "p", "o", "r", "t", "=", "4", "0", "0", "0" >>
T_p8080 == << "-", "p", "=", "8", "0", "8", "0" >>
T_watch == << "-", "-", "w", "a", "t", "c", "h" >>
T_foo == << "-", "-", "f", "o", "o" >>
T_bar == << "-", "-", "b", "a", "r" >>
T_age0 == << "-", "-", "a", "g", "e", "=", "0" >>
T_age30 == << "-", "-", "a", "g", "e", "=", "3", "0" >>
T_d == << "-", "d" >>
T_dx == << "-", "d", "=", "x" >>
T_s == << "s" >>

----------------------------------------------------------------------------
(* Configurations *)

zBoolean(d) == Field("boolean", FALSE, 0, <<>>, {}, << BoolV(d) >>)
zString(min) == Field("string", FALSE, min, <<>>, {}, <<>>)
zEnum(values, d) == Field("enum", FALSE, 0, <<>>, values, << StrV(d) >>)
zCoerceNumber(min, d) == Field("number", TRUE, min, <<>>, {}, d)
zNumber(min, max, d) == Field("number", FALSE, min, << max >>, {}, d)

Entry(key, value) == [ key |-> key, value |-> value ]

\* a mutant of firstBadAlias: only the first alias is looked at
firstBadAliasHeadOnly(shape, aliases, i) ==
  IF Len(aliases) > 0 /\ \A f \in 1..Len(shape) : shape[f].key # aliases[1].value
  THEN 1 ELSE 0

RECURSIVE firstBadAlias(_, _, _)
\* the loop of defineOptions from entry i on: the position of the first alias
\* whose target is not a key of the shape, 0 when there is none
firstBadAlias(shape, aliases, i) ==
  IF i > Len(aliases) THEN 0
  ELSE IF ~Has(shape, aliases[i].value) THEN i
  ELSE firstBadAlias(shape, aliases, i + 1)

\* defineOptions(schema, aliases), aliases given or not: it throws at the
\* first alias whose target is not a field, or returns { schema, aliases }
defineOptions(schema, aliases) ==
  IF Len(aliases) = 1 /\ firstBadAlias(schema, aliases[1], 1) > 0
  THEN [ threw |-> TRUE, value |-> <<>> ]
  ELSE [ threw |-> FALSE, value |-> << [ schema |-> schema, aliases |-> aliases ] >> ]

\* defineOptions(schema, aliases) for aliases whose targets are fields
Options(schema, aliases) == << [ schema |-> schema, aliases |-> aliases ] >>

NoArgs == [ variant |-> "none", items |-> <<>> ]
SingleArg(field) == [ variant |-> "single", items |-> << field >> ]
ArrayArgs(field) == [ variant |-> "array", items |-> << field >> ]
TupleArgs(fields) == [ variant |-> "tuple", items |-> fields ]

\* defineCommand({ name?, description, aliases?, options?, args? })
Command(name, description, aliases, options, args) ==
  [ name |-> name, description |-> description, aliases |-> aliases,
    options |-> options, args |-> args ]

\* the README's Quick Example: a global --verbose and one command, serve
QuickConfig ==
  [ globalOptions |-> Options(<< Entry(S_verbose, zBoolean(FALSE)) >>, <<>>),
    commandsIsFactory |-> FALSE,
    commands |-> <<
      Entry(S_serve,
            Command(<<>>, "Start development server", <<>>,
                    Options(<< Entry(S_port, zCoerceNumber(1024, << NumV(3000) >>)) >>,
                            << Entry(<< "p" >>, S_port) >>),
                    ArrayArgs(zString(0)))) >>,
    defaultCommand |-> <<>>,
    allowUnknownFlags |-> FALSE ]

\* the demo configuration's global options
DemoGlobalOptions ==
  Options(<< Entry(S_help, zBoolean(FALSE)), Entry(S_debug, zBoolean(FALSE)),
             Entry(S_verbose, zBoolean(FALSE)), Entry(S_version, zBoolean(FALSE)) >>,
          << Entry(<< "h" >>, S_help), Entry(<< "d" >>, S_debug),
             Entry(<< "v" >>, S_verbose) >>)

\* the demo configuration's command group userCommands
DemoUserCommands ==
  << Entry(S_userAdd,
           Command(<<>>, "Add a new user", <<>>,
                   Options(<< Entry(S_role, zEnum({ S_admin, S_user }, S_user)),
                              Entry(S_age, zCoerceNumber(1, <<>>)),
                              Entry(S_active, zBoolean(TRUE)),
                              Entry(S_createdAt, zCoerceNumber(0, << NumV(42) >>)) >>,
                           << Entry(<< "r" >>, S_role), Entry(<< "a" >>, S_age),
                              Entry(<< "x" >>, S_active) >>),
                   SingleArg(zString(3)))),
     Entry(S_user_remove,
           Command(<<>>, "Remove a user", <<>>,
                   Options(<< Entry(S_force, zBoolean(FALSE)) >>, <<>>),
                   SingleArg(zString(3)))) >>

\* the demo configuration: a commands factory and defaultCommand 'build'
DemoConfig ==
  [ globalOptions |-> DemoGlobalOptions,
    commandsIsFactory |-> TRUE,
    commands |-> DemoUserCommands \o <<
      Entry(S_serve,
            Command(<< S_serveme >>, "Serve command", << T_s, S_dev >>,
                    Options(<< Entry(S_port, zCoerceNumber(1024, << NumV(3000) >>)),
                               Entry(S_foobar, zBoolean(FALSE)) >>,
                            << Entry(<< "p" >>, S_port), Entry(<< "f" >>, S_foobar) >>),
                    ArrayArgs(zString(0)))),
      Entry(S_port,
            Command(<< S_port >>, "Port command", <<>>,
                    Options(<<>>, <<>>),
                    SingleArg(zNumber(1024, 49151, << NumV(3000) >>)))),
      Entry(S_build,
            Command(<<>>, "Build command", << << "b" >>, S_buid, S_bild, S_buidl >>,
                    Options(<< Entry(S_watch, zBoolean(FALSE)),
                               Entry(S_minify, zBoolean(TRUE)) >>,
                            << Entry(<< "w" >>, S_watch), Entry(<< "m" >>, S_minify),
                               Entry(S_foo, S_minify) >>),
                    NoArgs)),
      Entry(S_tupled,
            Command(<<>>, "tupled command", <<>>,
                    Options(<< Entry(S_quxie, zBoolean(FALSE)) >>, <<>>),
                    TupleArgs(<< zString(0), zCoerceNumber(0, << NumV(321) >>) >>))) >>,
    defaultCommand |-> << S_build >>,
    allowUnknownFlags |-> FALSE ]

\* a command that takes any number of strings and has no options
PlainCommand(description) ==
  Command(<<>>, description, <<>>, <<>>, ArrayArgs(zString(0)))

\* nested commands, as in the README's Nested Commands: a static table with
\* the multi-word name 'user add' declared beside the one-word name 'user'
NestedConfig(userFirst) ==
  [ globalOptions |-> <<>>,
    commandsIsFactory |-> FALSE,
    commands |-> IF userFirst
                 THEN << Entry(S_user, PlainCommand("user")),
                         Entry(S_user \o << " " >> \o S_add, PlainCommand("user add")) >>
                 ELSE << Entry(S_user \o << " " >> \o S_add, PlainCommand("user add")),
                         Entry(S_user, PlainCommand("user")) >>,
    defaultCommand |-> <<>>,
    allowUnknownFlags |-> FALSE ]

\* the configurations processConfig is called with, each with the tokens
\* its command lines are made of
Calls ==
  { [ config |-> QuickConfig,
      tokens |-> { T_verbose, S_serve, S_src, T_port8080, S_nope } ],
    [ config |-> QuickConfig,
      tokens |-> { T_verbose, S_serve, T_port3000, T_port4000, T_p8080 } ],
    [ config |-> DemoConfig,
      tokens |-> { T_watch, T_d, S_serve, T_s, S_src, T_port3000 } ],
    [ config |-> DemoConfig,
      tokens |-> { S_userAdd, T_s, S_john, T_age0, T_age30, T_foo } ],
    [ config |-> DemoConfig, tokens |-> { T_d, T_dx, S_build } ],
    [ config |-> NestedConfig(TRUE), tokens |-> { S_user, S_add, S_bob, T_foo, T_bar } ],
    [ config |-> NestedConfig(FALSE), tokens |-> { S_user, S_add, S_bob, T_foo, T_bar } ] }

----------------------------------------------------------------------------
(* Dispatcher: one call of processConfig(config, argv), step by step *)

NoError == [ kind |-> "none", issues |-> <<>> ]
\* throw new z.ZodError(issues), and the ZodError a failing schema.parse throws
ZodError(issues) == [ kind |-> "ZodError", issues |-> issues ]
\* throw new Error(...) of parseArgIntoFlags
PlainError == [ kind |-> "Error", issues |-> <<>> ]
\* reading a property of undefined
TypeError == [ kind |-> "TypeError", issues |-> <<>> ]

RECURSIVE setGlobalFlags(_, _, _, _)
\* the inner loop of processGlobalOptions over the flags of one token
setGlobalFlags(map, flags, j, globalOpts) ==
  IF j > Len(flags) THEN map
  ELSE LET resolvedKey == resolveAlias(flags[j].key, aliasesOf(globalOpts))
       IN  setGlobalFlags(IF isGlobalFlag(resolvedKey, globalOpts)
                          THEN MapSet(map, resolvedKey, flags[j].value)
                          ELSE map,
                          flags, j + 1, globalOpts)

RECURSIVE accumulateGlobalFlags(_, _, _, _)
\* the outer loop of processGlobalOptions from token i on
accumulateGlobalFlags(part, i, globalOpts, map) ==
  IF i > Len(part) THEN [ threw |-> FALSE, map |-> map ]
  ELSE LET parsedFlags == parseArgIntoFlags(part[i])
       IN  IF parsedFlags.threw THEN [ threw |-> TRUE, map |-> map ]
           ELSE accumulateGlobalFlags(part, i + 1, globalOpts,
                                      setGlobalFlags(map, parsedFlags.flags, 1, globalOpts))

RECURSIVE setCommandFlagsGlobalAliases(_, _, _, _)
\* a mutant of setCommandFlags: a key the command's alias map leaves alone is
\* looked up in the global alias map
setCommandFlagsGlobalAliases(map, flags, j, aliases) ==
  IF j > Len(flags) THEN map
  ELSE setCommandFlagsGlobalAliases(
         MapSet(map, resolveAlias(resolveAlias(flags[j].key, aliases),
                                  aliasesOf(config.globalOptions)), flags[j].value),
         flags, j + 1, aliases)

RECURSIVE setCommandFlags(_, _, _, _)
\* the inner loop of processCommandOptions over the flags of one token
setCommandFlags(map, flags, j, aliases) ==
  IF j > Len(flags) THEN map
  ELSE setCommandFlags(MapSet(map, resolveAlias(flags[j].key, aliases), flags[j].value),
                       flags, j + 1, aliases)

RECURSIVE accumulateCommandFlags(_, _, _, _)
\* the outer loop of processCommandOptions from token i on; command is the
\* matched command, or nothing when the resolver returned a result without one
\* (command.options then throws a TypeError at the first flag)
accumulateCommandFlags(part, i, command, map) ==
  IF i > Len(part) THEN [ threw |-> NoError, map |-> map ]
  ELSE LET parsedFlags == parseArgIntoFlags(part[i])
       IN  IF parsedFlags.threw THEN [ threw |-> PlainError, map |-> map ]
           ELSE IF Len(command) = 0 /\ Len(parsedFlags.flags) > 0
           THEN [ threw |-> TypeError, map |-> map ]
           ELSE accumulateCommandFlags(part, i + 1, command,
                  IF Len(command) = 0 THEN map
                  ELSE setCommandFlags(map, parsedFlags.flags, 1,
                                       aliasesOf(command[1].options)))

Fail(e) ==
  /\ pc' = "failed"
  /\ error' = e

\* processConfig, lines 68-79: the boundary and the three regions
FindBoundary ==
  /\ pc = "start"
  /\ LET end == findGlobalOptionsEnd(argv, config)
         remaining == slice(argv, end.index)
         commandOptionsStart == findFirstFlag(remaining)
         cut == IF commandOptionsStart = -1 THEN Len(remaining) ELSE commandOptionsStart
     IN  IF end.threw
         THEN /\ Fail(PlainError)
              /\ UNCHANGED << globalOptionsEnd, globalOptionsPart, commandParts,
                              commandOptionsPart >>
         ELSE /\ pc' = "globalOptions"
              /\ globalOptionsEnd' = end.index
              /\ globalOptionsPart' = sliceTo(argv, end.index)
              /\ commandParts' = sliceTo(remaining, cut)
              /\ commandOptionsPart' = slice(remaining, cut)
              /\ UNCHANGED error
  /\ UNCHANGED << config, argv, globalFlags, globalOptions, normalizedCommands,
                  factoryCalls, bestMatch, cmdArgs, commandInputFlags, validatedArgs,
                  commandOptions, res, trail, arg, parsed, definition, defined >>

\* a mutant of ProcessGlobalOptions: the unknown-key check of the global
\* region is run whether or not a default command is configured
ProcessGlobalOptionsAlwaysChecked ==
  /\ pc = "globalOptions"
  /\ LET acc == accumulateGlobalFlags(globalOptionsPart, 1, config.globalOptions, <<>>)
         checked == TRUE
         issues == IF checked
                   THEN validateFlags(acc.map, shapeOf(config.globalOptions), S_global,
                                      config.allowUnknownFlags)
                   ELSE <<>>
         typed == IF Len(config.globalOptions) = 1
                  THEN parseObject(config.globalOptions[1].schema, acc.map)
                  ELSE [ ok |-> TRUE, value |-> <<>>, issues |-> <<>> ]
     IN  IF acc.threw
         THEN /\ Fail(PlainError)
              /\ UNCHANGED << globalFlags, globalOptions, trail >>
         ELSE /\ globalFlags' = acc.map
              /\ IF Len(issues) > 0
                 THEN /\ Fail(ZodError(issues))
                      /\ trail' = trail \o << "validateFlags global" >>
                      /\ UNCHANGED globalOptions
                 ELSE /\ trail' = trail
                                  \o (IF checked THEN << "validateFlags global" >> ELSE <<>>)
                                  \o (IF Len(config.globalOptions) = 1
                                      THEN << "parse global" >> ELSE <<>>)
                      /\ IF typed.ok
                         THEN /\ pc' = "commands"
                              /\ globalOptions' = typed.value
                              /\ UNCHANGED error
                         ELSE /\ Fail(ZodError(typed.issues))
                              /\ UNCHANGED globalOptions
  /\ UNCHANGED << config, argv, globalOptionsEnd, globalOptionsPart, commandParts,
                  commandOptionsPart, normalizedCommands, factoryCalls, bestMatch,
                  cmdArgs, commandInputFlags, validatedArgs, commandOptions, res,
                  arg, parsed, definition, defined >>

\* processGlobalOptions(globalOptionsPart, config)
ProcessGlobalOptions ==
  /\ pc = "globalOptions"
  /\ LET acc == accumulateGlobalFlags(globalOptionsPart, 1, config.globalOptions, <<>>)
         checked == Len(config.defaultCommand) = 0 \/ config.defaultCommand[1] = <<>>
         issues == IF checked
                   THEN validateFlags(acc.map, shapeOf(config.globalOptions), S_global,
                                      config.allowUnknownFlags)
                   ELSE <<>>
         typed == IF Len(config.globalOptions) = 1
                  THEN parseObject(config.globalOptions[1].schema, acc.map)
                  ELSE [ ok |-> TRUE, value |-> <<>>, issues |-> <<>> ]
     IN  IF acc.threw
         THEN /\ Fail(PlainError)
              /\ UNCHANGED << globalFlags, globalOptions, trail >>
         ELSE /\ globalFlags' = acc.map
              /\ IF Len(issues) > 0
                 THEN /\ Fail(ZodError(issues))
                      /\ trail' = trail \o << "validateFlags global" >>
                      /\ UNCHANGED globalOptions
                 ELSE /\ trail' = trail
                                  \o (IF checked THEN << "validateFlags global" >> ELSE <<>>)
                                  \o (IF Len(config.globalOptions) = 1
                                      THEN << "parse global" >> ELSE <<>>)
                      /\ IF typed.ok
                         THEN /\ pc' = "commands"
                              /\ globalOptions' = typed.value
                              /\ UNCHANGED error
                         ELSE /\ Fail(ZodError(typed.issues))
                              /\ UNCHANGED globalOptions
  /\ UNCHANGED << config, argv, globalOptionsEnd, globalOptionsPart, commandParts,
                  commandOptionsPart, normalizedCommands, factoryCalls, bestMatch,
                  cmdArgs, commandInputFlags, validatedArgs, commandOptions, res,
                  arg, parsed, definition, defined >>

\* a mutant of MaterializeCommands: the factory is given the global flag map
\* as accumulated, not the typed global options
MaterializeCommandsUntyped ==
  /\ pc = "commands"
  /\ factoryCalls' = IF config.commandsIsFactory
                     THEN Append(factoryCalls, [ globalOptions |-> globalFlags,
                                                 schema |-> shapeOf(config.globalOptions) ])
                     ELSE factoryCalls
  /\ normalizedCommands' = normalizeCommands(config.commands)
  /\ trail' = trail \o (IF config.commandsIsFactory THEN << "factory" >> ELSE <<>>)
  /\ pc' = "resolve"
  /\ UNCHANGED << config, argv, globalOptionsEnd, globalOptionsPart, commandParts,
                  commandOptionsPart, globalFlags, globalOptions, bestMatch, cmdArgs,
                  commandInputFlags, validatedArgs, commandOptions, res, error,
                  arg, parsed, definition, defined >>

\* processConfig, lines 83-93: the command table, from the factory when the
\* configuration gives one, with every command's name filled in
MaterializeCommands ==
  /\ pc = "commands"
  /\ factoryCalls' = IF config.commandsIsFactory
                     THEN Append(factoryCalls, [ globalOptions |-> globalOptions,
                                                 schema |-> shapeOf(config.globalOptions) ])
                     ELSE factoryCalls
  /\ normalizedCommands' = normalizeCommands(config.commands)
  /\ trail' = trail \o (IF config.commandsIsFactory THEN << "factory" >> ELSE <<>>)
  /\ pc' = "resolve"
  /\ UNCHANGED << config, argv, globalOptionsEnd, globalOptionsPart, commandParts,
                  commandOptionsPart, globalFlags, globalOptions, bestMatch, cmdArgs,
                  commandInputFlags, validatedArgs, commandOptions, res, error,
                  arg, parsed, definition, defined >>

\* the issue of processConfig, lines 103-113
unknownCommandIssue(commands, parts) ==
  LET cmdPath == join(parts, << " " >>)
      availableCommands ==
        [ i \in 1..Len(commands) |->
            [ names |-> commands[i].value.name \o commands[i].value.aliases,
              description |-> commands[i].value.description ] ]
  IN  Issue("unrecognized_keys",
            [ text |-> IF cmdPath # <<>> THEN "Unknown command. Available commands"
                       ELSE "Available commands",
              args |-> availableCommands ],
            [ i \in 1..Len(commands) |-> commands[i].value.name[1] ],
            << cmdPath >>)

\* processConfig, lines 95-118: the command and its positional tokens
ResolveCommand ==
  /\ pc = "resolve"
  /\ LET m == findBestMatchingCommand(commandParts, normalizedCommands,
                                      config.defaultCommand)
     IN  /\ bestMatch' = m
         /\ IF ~m.found
            THEN /\ Fail(ZodError(<< unknownCommandIssue(normalizedCommands, commandParts) >>))
                 /\ UNCHANGED cmdArgs
            ELSE /\ pc' = "commandFlags"
                 /\ cmdArgs' = slice(commandParts, m.pathLength)
                 /\ UNCHANGED error
  /\ trail' = Append(trail, "resolve")
  /\ UNCHANGED << config, argv, globalOptionsEnd, globalOptionsPart, commandParts,
                  commandOptionsPart, globalFlags, globalOptions, normalizedCommands,
                  factoryCalls, commandInputFlags, validatedArgs, commandOptions, res,
                  arg, parsed, definition, defined >>

\* processCommandOptions, lines 264-285: the command flag map and its
\* unknown-key check
AccumulateCommandFlags ==
  /\ pc = "commandFlags"
  /\ LET acc == accumulateCommandFlags(commandOptionsPart, 1, bestMatch.command, <<>>)
         issues == validateFlags(acc.map, shapeOf(bestMatch.command[1].options),
                                 S_command, config.allowUnknownFlags)
     IN  IF acc.threw.kind # "none"
         THEN /\ Fail(acc.threw)
              /\ UNCHANGED << commandInputFlags, trail >>
         ELSE IF Len(bestMatch.command) = 0
         THEN /\ Fail(TypeError)
              /\ UNCHANGED << commandInputFlags, trail >>
         ELSE /\ commandInputFlags' = acc.map
              /\ trail' = Append(trail, "validateFlags command")
              /\ IF Len(issues) > 0
                 THEN Fail(ZodError(issues))
                 ELSE /\ pc' = "args"
                      /\ UNCHANGED error
  /\ UNCHANGED << config, argv, globalOptionsEnd, globalOptionsPart, commandParts,
                  commandOptionsPart, globalFlags, globalOptions, normalizedCommands,
                  factoryCalls, bestMatch, cmdArgs, validatedArgs, commandOptions, res,
                  arg, parsed, definition, defined >>

\* processCommandOptions, line 287: validateArgs(command.args, cmdArgs)
ValidateArgs ==
  /\ pc = "args"
  /\ LET r == validateArgs(bestMatch.command[1].args, cmdArgs)
     IN  IF r.ok
         THEN /\ pc' = "options"
              /\ validatedArgs' = r.value
              /\ UNCHANGED error
         ELSE /\ Fail(ZodError(r.issues))
              /\ UNCHANGED validatedArgs
  /\ trail' = Append(trail, "validateArgs")
  /\ UNCHANGED << config, argv, globalOptionsEnd, globalOptionsPart, commandParts,
                  commandOptionsPart, globalFlags, globalOptions, normalizedCommands,
                  factoryCalls, bestMatch, cmdArgs, commandInputFlags, commandOptions,
                  res, arg, parsed, definition, defined >>

\* processCommandOptions, lines 288-292, and processConfig, lines 127-136:
\* the typed command options and the result
ParseCommandOptions ==
  /\ pc = "options"
  /\ LET command == bestMatch.command[1]
         r == IF Len(command.options) = 1
              THEN parseObject(command.options[1].schema, commandInputFlags)
              ELSE [ ok |-> TRUE, value |-> <<>>, issues |-> <<>> ]
     IN  IF r.ok
         THEN /\ pc' = "done"
              /\ commandOptions' = r.value
              /\ res' = << [ _kind |-> command.name[1], command |-> command,
                             globalOptions |-> globalOptions, options |-> r.value,
                             args |-> validatedArgs ] >>
              /\ UNCHANGED error
         ELSE /\ Fail(ZodError(r.issues))
              /\ UNCHANGED << commandOptions, res >>
  /\ trail' = Append(trail, "parse command")
  /\ UNCHANGED << config, argv, globalOptionsEnd, globalOptionsPart, commandParts,
                  commandOptionsPart, globalFlags, globalOptions, normalizedCommands,
                  factoryCalls, bestMatch, cmdArgs, commandInputFlags, validatedArgs,
                  arg, parsed, definition, defined >>

\* no call of defineOptions is being followed
NoDefinition == [ schema |-> <<>>, aliases |-> <<>> ]
NotDefined == [ threw |-> FALSE, value |-> <<>> ]

\* the state before a call: nothing computed yet
Fresh ==
  /\ globalOptionsEnd = 0
  /\ globalOptionsPart = <<>>
  /\ commandParts = <<>>
  /\ commandOptionsPart = <<>>
  /\ globalFlags = <<>>
  /\ globalOptions = <<>>
  /\ normalizedCommands = <<>>
  /\ factoryCalls = <<>>
  /\ bestMatch = NotFound
  /\ cmdArgs = <<>>
  /\ commandInputFlags = <<>>
  /\ validatedArgs = <<>>
  /\ commandOptions = <<>>
  /\ res = <<>>
  /\ error = NoError
  /\ trail = <<>>
  /\ definition = NoDefinition
  /\ defined = NotDefined

\* processConfig is called with one of the configurations and a command line
\* of at most MaxArgvLen of its tokens
Init ==
  /\ pc = "start"
  /\ \E call \in Calls :
       /\ config = call.config
       /\ argv \in SeqsUpTo(call.tokens, MaxArgvLen)
  /\ Fresh
  /\ arg = <<>>
  /\ parsed = Returned(<<>>)

Next ==
  \/ FindBoundary
  \/ ProcessGlobalOptions
  \/ MaterializeCommands
  \/ ResolveCommand
  \/ AccumulateCommandFlags
  \/ ValidateArgs
  \/ ParseCommandOptions

Spec == Init /\ [][Next]_vars

----------------------------------------------------------------------------
(* The tokenizer on its own: parseArgIntoFlags applied to one token *)

\* the characters of the bodies of the tokens given to the tokenizer
TokenChars == { "a", "b", "=", "-" }

\* what a token starts with: nothing, one dash, two dashes, a negation
TokenPrefixes == { <<>>, << "-" >>, << "-", "-" >>, << "-", "-", "n", "o", "-" >> }

InitTokenizer ==
  /\ pc = "tokenize"
  /\ arg \in { prefix \o body : prefix \in TokenPrefixes,
                                body \in SeqsUpTo(TokenChars, MaxBodyLen) }
  /\ parsed = Returned(<<>>)
  /\ config = QuickConfig
  /\ argv = <<>>
  /\ Fresh

\* one call of parseArgIntoFlags(arg)
Tokenize ==
  /\ pc = "tokenize"
  /\ parsed' = parseArgIntoFlags(arg)
  /\ pc' = "tokenized"
  /\ UNCHANGED << config, argv, globalOptionsEnd, globalOptionsPart, commandParts,
                  commandOptionsPart, globalFlags, globalOptions, normalizedCommands,
                  factoryCalls, bestMatch, cmdArgs, commandInputFlags, validatedArgs,
                  commandOptions, res, error, trail, arg, definition, defined >>

SpecTokenizer == InitTokenizer /\ [][Tokenize]_vars

----------------------------------------------------------------------------
(* The resolver on its own: findBestMatchingCommand applied to a command   *)
(* path, a command table and a default command key                         *)

S_user_add == S_user \o << " " >> \o S_add

\* the tokens of the command paths given to the resolver; the last one is a
\* single argv token that holds a space
PathTokens == { S_user, S_add, S_bob, S_user_add }

\* the declarations the command tables given to the resolver are made of
Declarations ==
  { Entry(S_user, Command(<<>>, "user", <<>>, <<>>, NoArgs)),
    Entry(S_user_add, Command(<<>>, "user add", <<>>, <<>>, NoArgs)),
    Entry(S_userAdd, Command(<<>>, "userAdd", <<>>, <<>>, NoArgs)),
    Entry(S_john, Command(<< S_user >>, "named user", << S_user_add, S_bob >>, <<>>, NoArgs)) }

\* the command tables: at most MaxTableLen declarations, no key twice
Tables ==
  { table \in SeqsUpTo(Declarations, MaxTableLen) :
      \A i, j \in 1..Len(table) : i # j => table[i].key # table[j].key }

InitResolver ==
  /\ pc = "find"
  /\ commandParts \in SeqsUpTo(PathTokens, MaxPathLen)
  /\ \E table \in Tables, defaultCommand \in { <<>>, << S_user >> } :
       /\ config = [ globalOptions |-> <<>>, commandsIsFactory |-> FALSE,
                     commands |-> table, defaultCommand |-> defaultCommand,
                     allowUnknownFlags |-> FALSE ]
       /\ normalizedCommands = normalizeCommands(table)
  /\ argv = commandParts
  /\ globalOptionsEnd = 0
  /\ globalOptionsPart = <<>>
  /\ commandOptionsPart = <<>>
  /\ globalFlags = <<>>
  /\ globalOptions = <<>>
  /\ factoryCalls = <<>>
  /\ bestMatch = NotFound
  /\ cmdArgs = <<>>
  /\ commandInputFlags = <<>>
  /\ validatedArgs = <<>>
  /\ commandOptions = <<>>
  /\ res = <<>>
  /\ error = NoError
  /\ trail = <<>>
  /\ arg = <<>>
  /\ parsed = Returned(<<>>)
  /\ definition = NoDefinition
  /\ defined = NotDefined

\* one call of findBestMatchingCommand, and the slice processConfig takes of
\* the path when a command is found (lines 117-118)
FindBestMatchingCommand ==
  /\ pc = "find"
  /\ LET m == findBestMatchingCommand(commandParts, normalizedCommands,
                                      config.defaultCommand)
     IN  /\ bestMatch' = m
         /\ cmdArgs' = IF m.found THEN slice(commandParts, m.pathLength) ELSE <<>>
         /\ pc' = IF m.found THEN "found" ELSE "notFound"
  /\ UNCHANGED << config, argv, globalOptionsEnd, globalOptionsPart, commandParts,
                  commandOptionsPart, globalFlags, globalOptions, normalizedCommands,
                  factoryCalls, commandInputFlags, validatedArgs, commandOptions, res,
                  error, trail, arg, parsed, definition, defined >>

SpecResolver == InitResolver /\ [][FindBestMatchingCommand]_vars

----------------------------------------------------------------------------
(* defineOptions on its own, applied to a schema and an alias map *)

\* the field names of the schemas given to defineOptions
OptionKeys == { S_port, S_verbose, S_watch }

\* the alias names and the alias targets of the alias maps given to it; one
\* target is the name of no field
AliasNames == { << "p" >>, << "v" >> }
AliasTargets == OptionKeys \cup { S_nope }

\* the schemas: at most MaxShapeLen boolean fields, no key twice
Shapes ==
  { shape \in SeqsUpTo({ Entry(key, zBoolean(FALSE)) : key \in OptionKeys }, MaxShapeLen) :
      \A i, j \in 1..Len(shape) : i # j => shape[i].key # shape[j].key }

\* the alias maps: at most MaxAliasLen entries, no alias twice
AliasMaps ==
  { aliases \in SeqsUpTo({ Entry(alias, target) : alias \in AliasNames,
                                                 target \in AliasTargets }, MaxAliasLen) :
      \A i, j \in 1..Len(aliases) : i # j => aliases[i].key # aliases[j].key }

InitOptions ==
  /\ pc = "define"
  /\ \E shape \in Shapes, aliases \in { <<>> } \cup { << map >> : map \in AliasMaps } :
       definition = [ schema |-> shape, aliases |-> aliases ]
  /\ defined = NotDefined
  /\ config = QuickConfig
  /\ argv = <<>>
  /\ globalOptionsEnd = 0
  /\ globalOptionsPart = <<>>
  /\ commandParts = <<>>
  /\ commandOptionsPart = <<>>
  /\ globalFlags = <<>>
  /\ globalOptions = <<>>
  /\ normalizedCommands = <<>>
  /\ factoryCalls = <<>>
  /\ bestMatch = NotFound
  /\ cmdArgs = <<>>
  /\ commandInputFlags = <<>>
  /\ validatedArgs = <<>>
  /\ commandOptions = <<>>
  /\ res = <<>>
  /\ error = NoError
  /\ trail = <<>>
  /\ arg = <<>>
  /\ parsed = Returned(<<>>)

\* one call of defineOptions(schema, aliases)
DefineOptions ==
  /\ pc = "define"
  /\ defined' = defineOptions(definition.schema, definition.aliases)
  /\ pc' = IF defined'.threw THEN "threw" ELSE "defined"
  /\ error' = IF defined'.threw THEN PlainError ELSE error
  /\ UNCHANGED << config, argv, globalOptionsEnd, globalOptionsPart, commandParts,
                  commandOptionsPart, globalFlags, globalOptions, normalizedCommands,
                  factoryCalls, bestMatch, cmdArgs, commandInputFlags, validatedArgs,
                  commandOptions, res, trail, arg, parsed, definition >>

SpecOptions == InitOptions /\ [][DefineOptions]_vars

----------------------------------------------------------------------------
(* validateArgs on its own, applied to a tuple args spec and a list of     *)
(* positional tokens, as processCommandOptions calls it                    *)

\* the field schemas the tuples are made of: a string, a coerced number with
\* a default (both of the demo's tupled command) and one without
TupleFields == { zString(0), zCoerceNumber(0, << NumV(321) >>), zCoerceNumber(0, <<>>) }

\* the positional tokens: a word and a number
ArgTokens == { S_src, S_42 }

InitArgs ==
  /\ pc = "args"
  /\ \E fields \in SeqsUpTo(TupleFields, MaxTupleLen) :
       bestMatch = [ found |-> TRUE,
                     command |-> << Command(<< S_tupled >>, "tupled command", <<>>,
                                            Options(<< Entry(S_quxie, zBoolean(FALSE)) >>, <<>>),
                                            TupleArgs(fields)) >>,
                     pathLength |-> 1 ]
  /\ cmdArgs \in SeqsUpTo(ArgTokens, MaxArgsLen)
  /\ config = DemoConfig
  /\ argv = << S_tupled >> \o cmdArgs
  /\ globalOptionsEnd = 0
  /\ globalOptionsPart = <<>>
  /\ commandParts = argv
  /\ commandOptionsPart = <<>>
  /\ globalFlags = <<>>
  /\ globalOptions = <<>>
  /\ normalizedCommands = <<>>
  /\ factoryCalls = <<>>
  /\ commandInputFlags = <<>>
  /\ validatedArgs = <<>>
  /\ commandOptions = <<>>
  /\ res = <<>>
  /\ error = NoError
  /\ trail = <<>>
  /\ arg = <<>>
  /\ parsed = Returned(<<>>)
  /\ definition = NoDefinition
  /\ defined = NotDefined

SpecArgs == InitArgs /\ [][ValidateArgs]_vars

----------------------------------------------------------------------------
(* Claims about the dispatcher, checked under Spec *)

\* the call has returned or thrown
Finished == pc \in { "done", "failed" }

\* C1: with the Quick Example configuration (global schema {verbose}, one
\* command serve with options {port} and args = Array, no default command),
\* processConfig on [--verbose, serve, src, --port=8080] returns a result
\* whose _kind is serve, whose globalOptions come from the flag map
\* {verbose: true}, whose options come from the flag map {port: "8080"} and
\* whose args are the validated list [src].
C1_EndToEndSuccess ==
  (config = QuickConfig /\ argv = << T_verbose, S_serve, S_src, T_port8080 >> /\ Finished)
  => /\ pc = "done"
     /\ Len(res) = 1
     /\ res[1]._kind = S_serve
     /\ globalFlags = << Entry(S_verbose, BoolV(TRUE)) >>
     /\ res[1].globalOptions = parseObject(QuickConfig.globalOptions[1].schema, globalFlags).value
     /\ res[1].globalOptions = << Entry(S_verbose, BoolV(TRUE)) >>
     /\ commandInputFlags = << Entry(S_port, StrV(<< "8", "0", "8", "0" >>)) >>
     /\ res[1].options = << Entry(S_port, NumV(8080)) >>
     /\ res[1].args = << StrV(S_src) >>

\* C1's case: the call on [--verbose, serve, src, --port=8080] has returned
C1_Witness ==
  /\ config = QuickConfig
  /\ argv = << T_verbose, S_serve, S_src, T_port8080 >>
  /\ pc = "done"

\* C2: with defaultCommand = build and argv [--watch] (watch is a field of
\* build's option schema, not of the global schema), processConfig resolves
\* the build command with pathLength 0 and --watch is accumulated as build's
\* command flag: the command flag map handed to build's option schema
\* contains watch = true.
C2_DefaultCommandFlags ==
  (config = DemoConfig /\ argv = << T_watch >> /\ Finished)
  => /\ pc = "done"
     /\ res[1]._kind = S_build
     /\ bestMatch.pathLength = 0
     /\ Has(commandInputFlags, S_watch)
     /\ Get(commandInputFlags, S_watch) = BoolV(TRUE)
     /\ Get(res[1].options, S_watch) = BoolV(TRUE)

\* is token tok a non-flag token, or a flag token with a flag that does not
\* resolve through the global alias map to a global key
EndsGlobalRegion(tok, cfg) ==
  \/ ~startsWith(tok, << "-" >>)
  \/ \E i \in 1..Len(parseArgIntoFlags(tok).flags) :
       LET key == resolveAlias(parseArgIntoFlags(tok).flags[i].key,
                               aliasesOf(cfg.globalOptions))
       IN  ~(Has(shapeOf(cfg.globalOptions), key) \/ Has(aliasesOf(cfg.globalOptions), key))

\* the boundary C3 states: the 0-based index of the first token that ends
\* the global region, argv.length when there is none
StatedGlobalOptionsEnd(av, cfg) ==
  IF \E i \in 1..Len(av) : EndsGlobalRegion(av[i], cfg)
  THEN (CHOOSE i \in 1..Len(av) :
          /\ EndsGlobalRegion(av[i], cfg)
          /\ \A j \in 1..(i - 1) : ~EndsGlobalRegion(av[j], cfg)) - 1
  ELSE Len(av)

\* the boundary has been computed and the call has not failed since
PastBoundary == pc \in { "globalOptions", "commands", "resolve", "commandFlags",
                         "args", "options", "done" }

\* C3: for every argv, findGlobalOptionsEnd returns the index of the first
\* token that is a non-flag token or a flag token with a flag that is not
\* global, and argv.length only when there is no such token; so the global
\* region is exactly the tokens before that index, and a global flag after a
\* non-global flag token is not accumulated into the global options.
C3_BoundaryIsFirstNonGlobalToken ==
  PastBoundary
  => /\ globalOptionsEnd = StatedGlobalOptionsEnd(argv, config)
     /\ globalOptionsPart = sliceTo(argv, StatedGlobalOptionsEnd(argv, config))

\* does any prefix of the command path name a command of the table
SomePrefixMatches(parts, commands) ==
  \E n \in 1..Len(parts), i \in 1..Len(commands) :
    matches(commands[i].value, join(sliceTo(parts, n), << " " >>))

\* the names of all declared commands, in declaration order
DeclaredNames(cfg) ==
  [ i \in 1..Len(cfg.commands) |-> nameOr(cfg.commands[i].value, cfg.commands[i].key) ]

\* C4: when the command path matches no declared command at any shortening
\* and no default command is configured, processConfig fails with an
\* unknown-command error that carries the attempted path and the names of all
\* declared commands, and no command-flag or positional-argument validation
\* is attempted, whatever the command-flags region contains; for argv [nope]
\* against the Quick Example the error lists serve.  The path is commandParts
\* as processConfig computes it, and the case is the one where the resolver
\* has run: processGlobalOptions precedes it and can throw first.
C4_UnknownCommand ==
  /\ ( /\ Finished
       /\ "resolve" \in { trail[i] : i \in 1..Len(trail) }
       /\ Len(config.defaultCommand) = 0
       /\ ~SomePrefixMatches(commandParts, normalizedCommands) )
     => /\ pc = "failed"
        /\ error.kind = "ZodError"
        /\ Len(error.issues) = 1
        /\ error.issues[1].code = "unrecognized_keys"
        /\ error.issues[1].path = << join(commandParts, << " " >>) >>
        /\ error.issues[1].keys = DeclaredNames(config)
        /\ \A i \in 1..Len(trail) :
             trail[i] \notin { "validateFlags command", "validateArgs", "parse command" }
        /\ commandInputFlags = <<>>
        /\ validatedArgs = <<>>
        /\ res = <<>>
  /\ (config = QuickConfig /\ argv = << S_nope >> /\ Finished)
     => /\ pc = "failed"
        /\ error.issues[1].path = << S_nope >>
        /\ error.issues[1].keys = << S_serve >>

\* C4's case: an unknown command followed by a command-flags region
C4_Witness ==
  /\ pc = "failed"
  /\ config = QuickConfig
  /\ commandParts = << S_nope >>
  /\ commandOptionsPart = << T_port8080 >>
  /\ error.kind = "ZodError"

----------------------------------------------------------------------------
(* Claims about the resolver, checked under SpecResolver *)

\* the candidate built from the first n tokens of the path
Candidate(parts, n) == join(sliceTo(parts, n), << " " >>)

\* does some command of the table answer to the candidate of n tokens
PrefixMatches(parts, commands, n) ==
  \E i \in 1..Len(commands) : matches(commands[i].value, Candidate(parts, n))

\* the length of the longest prefix of the path that names a command
LongestMatchingPrefix(parts, commands) ==
  CHOOSE n \in 1..Len(parts) :
    /\ PrefixMatches(parts, commands, n)
    /\ \A m \in (n + 1)..Len(parts) : ~PrefixMatches(parts, commands, m)

\* no token of the path holds a space
SpaceFree(parts) ==
  \A i \in 1..Len(parts) : \A j \in 1..Len(parts[i]) : parts[i][j] # " "

Resolved == pc \in { "found", "notFound" }

\* C5: findBestMatchingCommand tries the full path first and then strictly
\* shorter prefixes, so when both a longer and a shorter prefix of the path
\* name declared commands the command of the longer one is returned; with
\* commands `user` and `user add`, in either declaration order, and path
\* [user, add, bob] the result is `user add` with pathLength 2 and the
\* positional tokens are [bob].
C5_LongestMatch ==
  /\ (Resolved /\ SomePrefixMatches(commandParts, normalizedCommands))
     => LET longest == LongestMatchingPrefix(commandParts, normalizedCommands)
        IN  /\ bestMatch.found
            /\ Len(bestMatch.command) = 1
            /\ matches(bestMatch.command[1], Candidate(commandParts, longest))
            /\ SpaceFree(commandParts) => bestMatch.pathLength = longest
  /\ ( /\ Resolved
       /\ Keys(config.commands) \in { << S_user, S_user_add >>, << S_user_add, S_user >> }
       /\ commandParts = << S_user, S_add, S_bob >> )
     => /\ bestMatch.found
        /\ bestMatch.command[1].name = << S_user_add >>
        /\ bestMatch.pathLength = 2
        /\ cmdArgs = << S_bob >>

\* C5's case: `user` is declared before `user add`, both prefixes of the path
\* name a command, and the resolver has answered
C5_Witness ==
  /\ pc = "found"
  /\ Keys(normalizedCommands) = << S_user, S_user_add >>
  /\ commandParts = << S_user, S_add, S_bob >>
  /\ PrefixMatches(commandParts, normalizedCommands, 1)
  /\ PrefixMatches(commandParts, normalizedCommands, 2)

\* C6: if two or more commands match the same candidate path (by canonical
\* name, camelCase-normalized name or alias) at the same path length,
\* findBestMatchingCommand returns the one declared earliest in the table.
C6_DeclarationOrderTieBreak ==
  (Resolved /\ SomePrefixMatches(commandParts, normalizedCommands))
  => LET cand == Candidate(commandParts,
                           LongestMatchingPrefix(commandParts, normalizedCommands))
         earliest == CHOOSE i \in 1..Len(normalizedCommands) :
                       /\ matches(normalizedCommands[i].value, cand)
                       /\ \A j \in 1..(i - 1) : ~matches(normalizedCommands[j].value, cand)
     IN  bestMatch.command = << normalizedCommands[earliest].value >>

\* C6's case: two commands of the table match the winning candidate, one by
\* its camelCase-normalized name and one by an alias
C6_Witness ==
  /\ pc = "found"
  /\ Keys(normalizedCommands) = << S_userAdd, S_john >>
  /\ commandParts = << S_user, S_add >>
  /\ matches(normalizedCommands[1].value, S_user_add)
  /\ matches(normalizedCommands[2].value, S_user_add)
  /\ bestMatch.command[1].name = << S_userAdd >>

\* C14: whenever findBestMatchingCommand matches a candidate built from the
\* first m path tokens it returns pathLength = m, so the tokens consumed by
\* the command name followed by the positional tokens passed to argument
\* validation make up the whole command path: no path token is lost or
\* counted twice, also when a single argv token itself holds a space.
C14_PositionalsAreTheRest ==
  (pc = "found" /\ SomePrefixMatches(commandParts, normalizedCommands))
  => LET m == LongestMatchingPrefix(commandParts, normalizedCommands)
     IN  /\ bestMatch.pathLength = m
         /\ sliceTo(commandParts, m) \o cmdArgs = commandParts

\* what the code does with the path ['user add', bob] and a command named
\* 'user add': the one-token candidate matches, pathLength is 2
C14_Observed ==
  ( /\ pc = "found"
    /\ commandParts = << S_user_add, S_bob >>
    /\ Keys(normalizedCommands) = << S_user_add >> )
  => /\ bestMatch.command[1].name = << S_user_add >>
     /\ bestMatch.pathLength = 2
     /\ cmdArgs = <<>>

\* C24: whenever findBestMatchingCommand returns a non-null result, its
\* command is one of the definitions of the command table, also on the
\* default-command fallback: for an empty table or a defaultCommand key that
\* is not a declaration key the resolver reports not-found instead of
\* returning a result without a command.
C24_ResultHasCommand ==
  /\ (pc = "found")
     => /\ bestMatch.found
        /\ Len(bestMatch.command) = 1
        /\ \E i \in 1..Len(normalizedCommands) :
             bestMatch.command[1] = normalizedCommands[i].value
  /\ ( /\ Resolved
       /\ ~SomePrefixMatches(commandParts, normalizedCommands)
       /\ \A i \in 1..Len(normalizedCommands) :
            << normalizedCommands[i].key >> # config.defaultCommand )
     => pc = "notFound"

\* what the code does with an empty table and defaultCommand 'user': a
\* result is returned, with pathLength 0 and no command in it
C24_Observed ==
  ( /\ Resolved
    /\ normalizedCommands = <<>>
    /\ config.defaultCommand = << S_user >> )
  => /\ pc = "found"
     /\ bestMatch = [ found |-> TRUE, command |-> <<>>, pathLength |-> 0 ]

----------------------------------------------------------------------------
(* Claims about the tokenizer, checked under SpecTokenizer *)

\* the (1-based) position of the first `=` of a string, 0 when it has none
FirstEquals(str) ==
  IF \E i \in 1..Len(str) : str[i] = "="
  THEN CHOOSE i \in 1..Len(str) : str[i] = "=" /\ \A j \in 1..(i - 1) : str[j] # "="
  ELSE 0

\* the text before the first `=` (the whole string when there is none)
BeforeEquals(str) ==
  IF FirstEquals(str) = 0 THEN str ELSE SubSeq(str, 1, FirstEquals(str) - 1)

\* the whole text after the first `=`
AfterEquals(str) == SubSeq(str, FirstEquals(str) + 1, Len(str))

\* C7: for every non-empty key k that does not start with `no-` and every
\* string v, also a v that itself contains `=`, parseArgIntoFlags("--k=v")
\* yields exactly one flag record, with key k and value the whole text after
\* the first `=`.
C7_LongFlagKeyValue ==
  ( /\ pc = "tokenized"
    /\ startsWith(arg, << "-", "-" >>)
    /\ FirstEquals(slice(arg, 2)) > 1
    /\ ~startsWith(slice(arg, 2), << "n", "o", "-" >>) )
  => parsed = Returned(<< [ key |-> BeforeEquals(slice(arg, 2)),
                            value |-> StrV(AfterEquals(slice(arg, 2))) ] >>)

\* C8: for every key k, a negated long flag `--no-k` yields exactly one flag
\* record with key k and value false, regardless of any trailing `=...` on
\* the token: `--no-k=anything` also yields key k, value false.
C8_NegatedFlag ==
  (pc = "tokenized" /\ startsWith(arg, << "-", "-", "n", "o", "-" >>))
  => parsed = Returned(<< [ key |-> BeforeEquals(slice(arg, 5)),
                            value |-> BoolV(FALSE) ] >>)

\* C9: for every short cluster token `-c1c2...cn` or `-c1c2...cn=v`,
\* parseArgIntoFlags yields exactly n flag records, one per character in
\* cluster order, and every record carries the same value: the string v when
\* `=` is present, boolean true otherwise.
C9_ShortCluster ==
  (pc = "tokenized" /\ startsWith(arg, << "-" >>) /\ ~startsWith(arg, << "-", "-" >>))
  => LET body == slice(arg, 1)
         chars == BeforeEquals(body)
         shared == IF FirstEquals(body) = 0 THEN BoolV(TRUE) ELSE StrV(AfterEquals(body))
     IN  /\ ~parsed.threw
         /\ Len(parsed.flags) = Len(chars)
         /\ \A i \in 1..Len(chars) :
              parsed.flags[i] = [ key |-> << chars[i] >>, value |-> shared ]

\* C17: every long flag token whose key is empty fails tokenization with a
\* malformed-flag error and is never turned into a flag record: every flag
\* record produced from a token starting with `--`, the negated form `--no-`
\* included, has a non-empty key.
C17_NoEmptyLongKey ==
  (pc = "tokenized" /\ startsWith(arg, << "-", "-" >>))
  => /\ \A i \in 1..Len(parsed.flags) : parsed.flags[i].key # <<>>
     /\ (BeforeEquals(slice(arg, 2)) = <<>>) => parsed.threw
     /\ (arg = << "-", "-", "n", "o", "-" >>) => parsed.threw

\* what the code does with the bare negation `--no-`: one record, empty key
C17_Observed ==
  (pc = "tokenized" /\ arg = << "-", "-", "n", "o", "-" >>)
  => parsed = Returned(<< [ key |-> <<>>, value |-> BoolV(FALSE) ] >>)

----------------------------------------------------------------------------
(* Claims about the flag maps, checked under Spec *)

RECURSIVE FlagsOf(_)
\* the flag records of a region, token by token, in argv order
FlagsOf(part) ==
  IF Len(part) = 0 THEN <<>>
  ELSE parseArgIntoFlags(part[1]).flags \o FlagsOf(Tail(part))

\* map holds exactly the canonical keys of the flags given, once each, each
\* with the value of its last occurrence
HoldsLastValues(map, flags, aliases) ==
  /\ \A i, j \in 1..Len(map) : i # j => map[i].key # map[j].key
  /\ \A m \in 1..Len(map) :
       \E i \in 1..Len(flags) : resolveAlias(flags[i].key, aliases) = map[m].key
  /\ \A i \in 1..Len(flags) :
       LET key == resolveAlias(flags[i].key, aliases)
       IN  /\ Has(map, key)
           /\ (\A j \in (i + 1)..Len(flags) : resolveAlias(flags[j].key, aliases) # key)
              => Get(map, key) = flags[i].value

\* the flags of the global region that resolve to a global key
RECURSIVE GlobalFlagsOf(_, _)
GlobalFlagsOf(flags, globalOpts) ==
  IF Len(flags) = 0 THEN <<>>
  ELSE (IF isGlobalFlag(resolveAlias(flags[1].key, aliasesOf(globalOpts)), globalOpts)
        THEN << flags[1] >> ELSE <<>>) \o GlobalFlagsOf(Tail(flags), globalOpts)

\* C10: when the same canonical flag key is given more than once in one
\* region (directly, via an alias, or both), the accumulated flag map holds
\* exactly one entry for that key and its value is the value of the last
\* occurrence in argv order; `--port=3000 --port=4000` yields port = 4000.
C10_LastWriteWins ==
  /\ (pc \in { "args", "options", "done" })
     => HoldsLastValues(commandInputFlags, FlagsOf(commandOptionsPart),
                        aliasesOf(bestMatch.command[1].options))
  /\ (pc \in { "commands", "resolve", "commandFlags", "args", "options", "done" })
     => HoldsLastValues(globalFlags,
                        GlobalFlagsOf(FlagsOf(globalOptionsPart), config.globalOptions),
                        aliasesOf(config.globalOptions))
  /\ (config = QuickConfig /\ argv = << S_serve, T_port3000, T_port4000 >> /\ Finished)
     => commandInputFlags = << Entry(S_port, StrV(<< "4", "0", "0", "0" >>)) >>

\* C10's case: port is given by name and then by its alias, with two values
C10_Witness ==
  /\ pc = "done"
  /\ config = QuickConfig
  /\ commandOptionsPart = << T_port3000, T_port4000, T_p8080 >>
  /\ commandInputFlags = << Entry(S_port, StrV(<< "8", "0", "8", "0" >>)) >>

\* every token of a region is one parseArgIntoFlags accepts
Tokenizes(part) == \A i \in 1..Len(part) : ~parseArgIntoFlags(part[i]).threw

\* a command was resolved and the flags of its region were accumulated
CommandFlagsAccumulated ==
  /\ Finished
  /\ bestMatch.found
  /\ Len(bestMatch.command) = 1
  /\ Tokenizes(commandOptionsPart)

\* the keys given in the command-flags region, after the command's aliases,
\* that are not fields of the command's option schema, directly or after
\* camelCase normalization
OffendingCommandKeys ==
  LET options == bestMatch.command[1].options
      flags == FlagsOf(commandOptionsPart)
  IN  { key \in { resolveAlias(flags[i].key, aliasesOf(options)) : i \in 1..Len(flags) } :
          /\ \A f \in 1..Len(shapeOf(options)) : shapeOf(options)[f].key # key
          /\ \A f \in 1..Len(shapeOf(options)) : shapeOf(options)[f].key # camelCase(key) }

\* C11: when allowUnknownFlags is not set and the command-flags region holds
\* one or more keys that are not fields of the matched command's option
\* schema (directly or after camelCase normalization), processConfig fails
\* with exactly one unrecognized-keys issue for the `command` context that
\* lists every offending key, each once; [user, --foo, --bar] against a
\* command with neither field yields one issue listing foo and bar.
C11_UnrecognizedFlagsAggregated ==
  /\ (CommandFlagsAccumulated /\ ~config.allowUnknownFlags /\ OffendingCommandKeys # {})
     => /\ pc = "failed"
        /\ error.kind = "ZodError"
        /\ Len(error.issues) = 1
        /\ error.issues[1].code = "unrecognized_keys"
        /\ error.issues[1].path = << S_command >>
        /\ { error.issues[1].keys[i] : i \in 1..Len(error.issues[1].keys) }
             = OffendingCommandKeys
        /\ Len(error.issues[1].keys) = Cardinality(OffendingCommandKeys)
  /\ (config = NestedConfig(TRUE) /\ argv = << S_user, T_foo, T_bar >> /\ Finished)
     => /\ pc = "failed"
        /\ Len(error.issues) = 1
        /\ error.issues[1].keys = << S_foo, S_bar >>

\* C11's case: two unknown flags after a resolved command
C11_Witness ==
  /\ pc = "failed"
  /\ config = NestedConfig(TRUE)
  /\ argv = << S_user, T_foo, T_bar >>
  /\ bestMatch.found
  /\ error.kind = "ZodError"

\* C13: with the demo configuration (a command declared under key serve with
\* name serveme and aliases s and dev; defaultCommand build), argv
\* [serve, src, --port=3000] dispatches to the serve command with args [src]
\* and port 3000, exactly as [s, src, --port=3000] does: a declared command
\* is reachable by its declaration key.
C13_ReachableByDeclarationKey ==
  ( /\ config = DemoConfig
    /\ argv \in { << S_serve, S_src, T_port3000 >>, << T_s, S_src, T_port3000 >> }
    /\ Finished )
  => /\ pc = "done"
     /\ bestMatch.command = << Get(normalizedCommands, S_serve) >>
     /\ res[1].command = Get(normalizedCommands, S_serve)
     /\ res[1].args = << StrV(S_src) >>
     /\ Get(res[1].options, S_port) = NumV(3000)

\* what the code does with [serve, src, --port=3000]: no command answers to
\* serve, the default command build is taken with both path tokens as its
\* positional tokens, and --port is an unknown flag of build
C13_Observed ==
  (config = DemoConfig /\ argv = << S_serve, S_src, T_port3000 >> /\ Finished)
  => /\ pc = "failed"
     /\ bestMatch.command = << Get(normalizedCommands, S_build) >>
     /\ bestMatch.pathLength = 0
     /\ cmdArgs = << S_serve, S_src >>
     /\ error = ZodError(<< Issue("unrecognized_keys", Msg("Unknown flags"),
                                  << S_port >>, << S_command >>) >>)

\* the position of a step in the trail, 0 when it was not run
StepAt(step) ==
  IF \E i \in 1..Len(trail) : trail[i] = step
  THEN CHOOSE i \in 1..Len(trail) : trail[i] = step
  ELSE 0

\* the command flags hold no unknown key, a flag value fails its field
\* schema and a positional token fails the command's args spec
FlagAndPositionalInvalid ==
  /\ CommandFlagsAccumulated
  /\ OffendingCommandKeys = {}
  /\ Len(bestMatch.command[1].options) = 1
  /\ ~parseObject(bestMatch.command[1].options[1].schema, commandInputFlags).ok
  /\ ~validateArgs(bestMatch.command[1].args, cmdArgs).ok

\* C15: processConfig first checks the command flags for unknown keys, then
\* parses the command flag map through the command's option schema, and only
\* then validates the positional tokens against the command's args spec; so
\* when both a command flag value and a positional token are invalid, the
\* failure reported is the flag's field-validation failure.
C15_OptionsBeforeArgs ==
  /\ (StepAt("validateArgs") > 0)
     => /\ StepAt("validateFlags command") > 0
        /\ StepAt("parse command") > StepAt("validateFlags command")
        /\ StepAt("validateArgs") > StepAt("parse command")
  /\ FlagAndPositionalInvalid
     => /\ pc = "failed"
        /\ error = ZodError(parseObject(bestMatch.command[1].options[1].schema,
                                         commandInputFlags).issues)

\* what the code does: the positional tokens are validated before the flag
\* map is parsed, and the positional failure is the one reported
C15_Observed ==
  /\ (StepAt("parse command") > 0)
     => /\ StepAt("validateArgs") > StepAt("validateFlags command")
        /\ StepAt("parse command") > StepAt("validateArgs")
  /\ FlagAndPositionalInvalid
     => /\ pc = "failed"
        /\ error = ZodError(validateArgs(bestMatch.command[1].args, cmdArgs).issues)

\* the command flags hold an unknown key and a known flag whose value fails
\* its field schema
UnknownAndInvalidCommandFlag ==
  /\ CommandFlagsAccumulated
  /\ ~config.allowUnknownFlags
  /\ OffendingCommandKeys # {}
  /\ Len(bestMatch.command[1].options) = 1
  /\ LET shape == bestMatch.command[1].options[1].schema
     IN  \E f \in 1..Len(shape) :
           /\ Has(commandInputFlags, shape[f].key)
           /\ ~parseField(shape[f].value, << Get(commandInputFlags, shape[f].key) >>,
                          << shape[f].key >>).ok

\* C16: when a region holds both an unrecognized flag key and a known flag
\* whose value fails its field schema, the single aggregate error raised for
\* that region holds both the unrecognized-flags issue and the
\* field-validation failure.
C16_IssuesMerged ==
  UnknownAndInvalidCommandFlag
  => /\ pc = "failed"
     /\ error.kind = "ZodError"
     /\ \E i \in 1..Len(error.issues) : error.issues[i].code = "unrecognized_keys"
     /\ \E i \in 1..Len(error.issues) : error.issues[i].code # "unrecognized_keys"

\* what the code does: the unknown-key check throws before the schema parses
\* the flag map, so the error holds the unrecognized-keys issue alone
C16_Observed ==
  UnknownAndInvalidCommandFlag
  => /\ pc = "failed"
     /\ Len(error.issues) = 1
     /\ error.issues[1].code = "unrecognized_keys"

\* the typed global options that global-option validation produces from the
\* accumulated global flag map
TypedGlobalOptions ==
  IF Len(config.globalOptions) = 1
  THEN parseObject(config.globalOptions[1].schema, globalFlags)
  ELSE [ ok |-> TRUE, value |-> <<>>, issues |-> <<>> ]

\* C18: in one processConfig call a commands factory is invoked at most
\* once, always with the typed global options produced by global-option
\* validation (and the global schema), and only after that validation has
\* succeeded; if global-option validation fails the factory is never invoked.
C18_FactoryAfterGlobalValidation ==
  /\ Len(factoryCalls) <= 1
  /\ (Len(factoryCalls) = 1)
     => /\ config.commandsIsFactory
        /\ TypedGlobalOptions.ok
        /\ factoryCalls[1].globalOptions = TypedGlobalOptions.value
        /\ factoryCalls[1].globalOptions = globalOptions
        /\ factoryCalls[1].schema = shapeOf(config.globalOptions)
        /\ StepAt("factory") > 0
        /\ StepAt("parse global") > 0 => StepAt("factory") > StepAt("parse global")
        /\ StepAt("validateFlags global") > 0
           => StepAt("factory") > StepAt("validateFlags global")
  /\ (config.commandsIsFactory /\ pc \in { "resolve", "commandFlags", "args", "options", "done" })
     => Len(factoryCalls) = 1
  /\ (pc = "failed" /\ StepAt("resolve") = 0) => factoryCalls = <<>>
  /\ (Finished /\ ~TypedGlobalOptions.ok) => factoryCalls = <<>>

\* C18's case: the factory of the demo configuration was called with the
\* typed global options of a command line that gives -d
C18_Witness ==
  /\ pc = "done"
  /\ config = DemoConfig
  /\ argv = << T_d, S_build >>
  /\ Len(factoryCalls) = 1
  /\ Get(factoryCalls[1].globalOptions, S_debug) = BoolV(TRUE)

\* the keys of the command-flags region that are aliases of the global alias
\* map and not of the matched command's alias map
GlobalOnlyAliasKeys ==
  LET flags == FlagsOf(commandOptionsPart)
  IN  { flags[i].key : i \in { i \in 1..Len(flags) :
          /\ Has(aliasesOf(config.globalOptions), flags[i].key)
          /\ ~Has(aliasesOf(bestMatch.command[1].options), flags[i].key) } }

\* C20: flags of the command-flags region are resolved only against the
\* matched command's own alias map: a short key that is an alias of the
\* global alias map but not of the command's is not translated to the global
\* canonical name, and is reported as an unknown command flag unless it names
\* a field of the command's schema.
C20_CommandAliasesOnly ==
  CommandFlagsAccumulated
  => LET options == bestMatch.command[1].options
         flags == FlagsOf(commandOptionsPart)
     IN  /\ { commandInputFlags[i].key : i \in 1..Len(commandInputFlags) }
              = { resolveAlias(flags[i].key, aliasesOf(options)) : i \in 1..Len(flags) }
         /\ \A key \in GlobalOnlyAliasKeys :
              /\ Has(commandInputFlags, key)
              /\ ( /\ ~Has(shapeOf(options), key)
                   /\ ~Has(shapeOf(options), camelCase(key))
                   /\ ~config.allowUnknownFlags )
                 => /\ pc = "failed"
                    /\ Len(error.issues) = 1
                    /\ error.issues[1].code = "unrecognized_keys"
                    /\ error.issues[1].path = << S_command >>
                    /\ \E k \in 1..Len(error.issues[1].keys) : error.issues[1].keys[k] = key

\* C20's case: -d, the global alias of debug, is given after the demo's
\* serve command, which has no alias d
C20_Witness ==
  /\ pc = "failed"
  /\ config = DemoConfig
  /\ argv = << T_s, T_d >>
  /\ GlobalOnlyAliasKeys = { << "d" >> }
  /\ commandInputFlags = << Entry(<< "d" >>, BoolV(TRUE)) >>
  /\ error.issues[1].keys = << << "d" >> >>

\* the configuration declares a default command
DefaultConfigured ==
  Len(config.defaultCommand) = 1 /\ config.defaultCommand[1] # <<>>

\* C21: when the config declares a default command, the unknown-key check
\* for the global region is never run, whichever command eventually matches;
\* the unknown-key check for the command-flags region runs in every dispatch
\* that resolves a command, whether or not a default command is configured.
C21_DefaultCommandAsymmetry ==
  /\ DefaultConfigured => StepAt("validateFlags global") = 0
  /\ CommandFlagsAccumulated => StepAt("validateFlags command") > 0

\* C21's case: a default command is configured, another command is matched
\* through its alias, and the call has returned
C21_Witness ==
  /\ pc = "done"
  /\ config = DemoConfig
  /\ argv = << T_d, T_s, T_port3000 >>
  /\ res[1]._kind = S_serveme
  /\ StepAt("validateFlags global") = 0
  /\ StepAt("validateFlags command") > 0

\* the flag records of every token of argv, in argv order
GivenFlags == FlagsOf(argv)

\* the key of a given flag is held, after alias resolution, by the global
\* flag map or by the command flag map
Accumulated(flag) ==
  \/ Has(globalFlags, resolveAlias(flag.key, aliasesOf(config.globalOptions)))
  \/ /\ Len(bestMatch.command) = 1
     /\ Has(commandInputFlags,
            resolveAlias(flag.key, aliasesOf(bestMatch.command[1].options)))

\* the key of a given flag is a field of neither the global schema nor the
\* matched command's option schema, directly, through an alias or after
\* camelCase normalization
InNeitherSchema(flag) ==
  LET globalKey == resolveAlias(flag.key, aliasesOf(config.globalOptions))
      commandKey == resolveAlias(flag.key, aliasesOf(bestMatch.command[1].options))
      shape == shapeOf(bestMatch.command[1].options)
  IN  /\ ~Has(shapeOf(config.globalOptions), globalKey)
      /\ ~Has(shapeOf(config.globalOptions), camelCase(globalKey))
      /\ ~Has(shape, commandKey)
      /\ ~Has(shape, camelCase(commandKey))

\* C22: when allowUnknownFlags is not set and processConfig returns a result,
\* every flag key given in any argv token appears, after alias resolution, in
\* the accumulated global flag map or in the accumulated command flag map; a
\* flag that belongs to neither schema always makes the call fail.
C22_NoFlagDiscarded ==
  (pc = "done" /\ ~config.allowUnknownFlags)
  => \A i \in 1..Len(GivenFlags) :
       /\ Accumulated(GivenFlags[i])
       /\ ~InNeitherSchema(GivenFlags[i])

\* what the code does with the demo configuration and [--age=30, userAdd]:
\* the whole argv is the global region, --age=30 is dropped there, the
\* default command is taken and the call returns
C22_Observed ==
  (config = DemoConfig /\ argv = << T_age30, S_userAdd >> /\ Finished)
  => /\ pc = "done"
     /\ InNeitherSchema(GivenFlags[1])
     /\ globalOptionsPart = argv
     /\ globalFlags = <<>>
     /\ commandInputFlags = <<>>
     /\ res[1]._kind = S_build

RECURSIVE NonFlagTokens(_)
\* the tokens of a list that do not start with `-`, in order
NonFlagTokens(tokens) ==
  IF Len(tokens) = 0 THEN <<>>
  ELSE (IF startsWith(tokens[1], << "-" >>) THEN <<>> ELSE << tokens[1] >>)
       \o NonFlagTokens(Tail(tokens))

\* a command definition was resolved and its positional tokens were taken
CommandResolved ==
  /\ pc \in { "commandFlags", "args", "options", "done", "failed" }
  /\ StepAt("resolve") > 0
  /\ bestMatch.found
  /\ Len(bestMatch.command) = 1

\* C23: when processConfig resolves a command, every argv token that does
\* not start with `-` is either one of the path tokens consumed by the
\* command name or one of the positional tokens handed to validateArgs,
\* non-flag tokens that appear after the first command flag included.
C23_NoPositionalDiscarded ==
  CommandResolved
  => NonFlagTokens(argv) = sliceTo(commandParts, bestMatch.pathLength) \o cmdArgs

\* what the code does with the Quick Example and [serve, --port=8080, src]:
\* src lies in the command-flags region, yields no flag record and is not a
\* positional token; the call returns with no args
C23_Observed ==
  (config = QuickConfig /\ argv = << S_serve, T_port8080, S_src >> /\ Finished)
  => /\ pc = "done"
     /\ commandParts = << S_serve >>
     /\ commandOptionsPart = << T_port8080, S_src >>
     /\ cmdArgs = <<>>
     /\ res[1].args = <<>>
     /\ res[1].options = << Entry(S_port, NumV(8080)) >>

----------------------------------------------------------------------------
(* Claims about defineOptions, checked under SpecOptions *)

\* some alias of the alias map given has a target that is no field of the
\* schema given
SomeTargetMissing ==
  /\ Len(definition.aliases) = 1
  /\ \E a \in 1..Len(definition.aliases[1]) :
       \A f \in 1..Len(definition.schema) :
         definition.schema[f].key # definition.aliases[1][a].value

\* C12: defineOptions(schema, aliases) fails if and only if some alias target
\* is not a field of the schema; otherwise it returns the schema and the
\* alias map unchanged, so every alias of a returned options definition maps
\* to a field of that same schema.
C12_DefineOptionsChecksTargets ==
  (pc \in { "defined", "threw" })
  => /\ (pc = "threw") <=> SomeTargetMissing
     /\ defined.threw <=> SomeTargetMissing
     /\ ~defined.threw
        => /\ defined.value = << [ schema |-> definition.schema,
                                   aliases |-> definition.aliases ] >>
           /\ \A m \in 1..Len(defined.value[1].aliases) :
                \A a \in 1..Len(defined.value[1].aliases[m]) :
                  \E f \in 1..Len(defined.value[1].schema) :
                    defined.value[1].schema[f].key = defined.value[1].aliases[m][a].value

\* C12's case: the first alias names a field, the second does not, and the
\* definition has failed
C12_Witness ==
  /\ pc = "threw"
  /\ definition.schema = << Entry(S_port, zBoolean(FALSE)) >>
  /\ definition.aliases = << << Entry(<< "p" >>, S_port), Entry(<< "v" >>, S_nope) >> >>
  /\ defined.threw

----------------------------------------------------------------------------
(* Claims about validateArgs, checked under SpecArgs *)

\* what schema i of the tuple is given: token i, or a missing value when
\* there is no token at that position
TupleInput(i) == IF i <= Len(cmdArgs) THEN << StrV(cmdArgs[i]) >> ELSE <<>>

\* the outcome of schema i of the tuple on what it is given
TupleParse(i) == parseField(bestMatch.command[1].args.items[i], TupleInput(i), <<>>)

\* C19: for a Tuple args spec of n field schemas and any list of positional
\* tokens, validateArgs applies schema[i] to token[i] for i = 0..n-1 in order
\* and returns exactly n values; tokens at positions >= n are neither
\* validated nor surfaced, and a position with no token is passed to its
\* schema as a missing value.
C19_TupleArgs ==
  (pc \in { "options", "failed" } /\ bestMatch.command[1].args.variant = "tuple")
  => LET n == Len(bestMatch.command[1].args.items)
     IN  IF \A i \in 1..n : TupleParse(i).ok
         THEN /\ pc = "options"
              /\ Len(validatedArgs) = n
              /\ \A i \in 1..n : validatedArgs[i] = TupleParse(i).value
         ELSE LET first == CHOOSE i \in 1..n :
                             /\ ~TupleParse(i).ok
                             /\ \A j \in 1..(i - 1) : TupleParse(j).ok
              IN  /\ pc = "failed"
                  /\ error = ZodError(TupleParse(first).issues)
                  /\ validatedArgs = <<>>

\* C19's case: a tuple of two schemas given one token; the second schema
\* is given a missing value and answers with its default
C19_Witness ==
  /\ pc = "options"
  /\ bestMatch.command[1].args = TupleArgs(<< zString(0), zCoerceNumber(0, << NumV(321) >>) >>)
  /\ cmdArgs = << S_src >>
  /\ validatedArgs = << StrV(S_src), NumV(321) >>

====
